---- MODULE Spec2Model ----
(***************************************************************************)
(* The upload handler (handleMultiPartUpload, vivify) and the JSON signing *)
(* service (signhandler.Handler) of pkg/blobserver/handlers/upload.go.     *)
(*                                                                         *)
(* Strings are modelled structurally: a blob's bytes are a record, a       *)
(* BlobRef is the hash name plus the digest of the bytes (SHA-1 is taken   *)
(* collision free, so the digest is represented by the bytes it was        *)
(* computed from), an error text is a sequence of tokens.                  *)
(***************************************************************************)
EXTENDS Integers, Sequences, FiniteSets, TLC

VARIABLES
    store,      \* the blobs held by the storage collaborator (set of blob bytes)
    storage,    \* the capabilities and configuration of the storage given to CreateUploadHandler
    hnd,        \* the signhandler.Handler registered as "jsonsign" (its fields)
    now,        \* the wall clock read by the signing primitive when no SignatureTime is set
    rq,         \* per upload request: the locals of handleMultiPartUpload, the wire, the conn
                \* and the history of its calls
    boots,      \* signing service: number of newJSONSignFromConfig calls so far
    keyops,     \* history: the storage calls made by uploadPublicKey, in order
    sig         \* signing service: requests served so far, the last one, its response
                \* and the key fetcher and key suffix of the handler that served it

vars == <<store, storage, hnd, now, rq, boots, keyops, sig>>

----------------------------------------------------------------------------
\* Bounds of the model.

\* Parts a client puts into one multipart body (sequential specification).
MaxParts == 3
\* Parts per body when two requests run concurrently.
MaxPartsConc == 1
\* Constructions of the signing service against one destination.
MaxStartups == 2
\* Requests served by the signing service.
MaxSigReqs == 1

Reqs == {1, 2}

----------------------------------------------------------------------------
\* Blob bytes.  A file schema blob names its modification time, its declared
\* size and the bytes its chunk graph reads back to.

RFC3339(t) == [fmt |-> "rfc3339", t |-> t]
Garbled == [fmt |-> "garbled", t |-> 0]
MissingField == [fmt |-> "missing", t |-> 0]

\* F1: a complete file.  F2: its chunks read back short of the declared size.
\* F3: its modification time is no RFC 3339 time.  B1: raw bytes, no schema blob.
F1 == [camliType |-> "file", fileName |-> "a", unixMtime |-> RFC3339(1), size |-> 2, bytes |-> <<"x", "y">>]
F2 == [camliType |-> "file", fileName |-> "b", unixMtime |-> RFC3339(2), size |-> 3, bytes |-> <<"x", "y">>]
F3 == [camliType |-> "file", fileName |-> "c", unixMtime |-> Garbled, size |-> 1, bytes |-> <<"z">>]
B1 == [camliType |-> "", fileName |-> "", unixMtime |-> Garbled, size |-> 0, bytes |-> <<"q">>]
Junk == [camliType |-> "", fileName |-> "", unixMtime |-> Garbled, size |-> 0, bytes |-> <<>>]

UploadableBlobs == {F1, F2, F3, B1}

\* blob.SHA1FromString / the digest the storage computes over received bytes.
SHA1FromString(s) == [hashName |-> "sha1", digest |-> s]

ZeroRef == [hashName |-> "", digest |-> Junk]

\* blob.Ref.Valid
RefValid(ref) == ref.hashName # ""

\* blob.Ref.String: "sha1-<hex>"
RefString(ref) == [hash |-> ref.hashName, hex |-> ref.digest]

NotARef == [hash |-> "not-a-ref", hex |-> Junk]

\* blob.Parse: (ref, ok); ok only for "<known hash>-<hex>".
BlobParse(name) ==
    IF name.hash = "sha1"
    THEN [ok |-> TRUE, ref |-> [hashName |-> name.hash, digest |-> name.hex]]
    ELSE [ok |-> FALSE, ref |-> ZeroRef]

\* Number of bytes of a blob as the storage counts them.
BlobSize(b) ==
    IF "bytes" \in DOMAIN b THEN 1 + Len(b.bytes) ELSE 1

\* time.Parse(time.RFC3339, s): (t, err)
TimeParse(s) ==
    IF s.fmt = "rfc3339" THEN [err |-> FALSE, t |-> s.t] ELSE [err |-> TRUE, t |-> 0]

----------------------------------------------------------------------------
\* The storage collaborator.

\* BlobReceiver.ReceiveBlob(ref, source): the storage digests the bytes it
\* reads; a digest other than the declared ref, or an I/O failure (io), is an
\* error and stores nothing.  Receiving bytes already held changes nothing.
ReceiveBlob(sto, ref, body, io) ==
    IF io \/ SHA1FromString(body) # ref
    THEN [err |-> TRUE, store |-> sto, got |-> [Ref |-> ZeroRef, Size |-> 0]]
    ELSE [err |-> FALSE, store |-> sto \cup {body},
          got |-> [Ref |-> ref, Size |-> BlobSize(body)]]

\* blobserver.StatBlob(sto, ref): err == nil exactly when the blob is held.
StatBlob(sto, ref) == [err |-> ~(RefValid(ref) /\ ref.digest \in sto)]

----------------------------------------------------------------------------
\* JSON documents: the unsigned objects handed to the signing primitive.
\* A JSON string is its length in bytes and the document it parses to.

NoTime == [set |-> FALSE, t |-> 0]
TimeOf(t) == [set |-> TRUE, t |-> t]

EmptyDoc ==
    [object |-> TRUE, camliType |-> "", camliSigner |-> ZeroRef, claimDate |-> MissingField,
     key |-> <<>>, permaNode |-> ZeroRef, attribute |-> "", value |-> ZeroRef]

\* schema.NewHashPlannedPermanode(h): the permanode is seeded by the digest h.
NewHashPlannedPermanode(h) ==
    [EmptyDoc EXCEPT !.camliType = "permanode", !.key = h]

\* schema.NewSetAttributeClaim(permaNode, attr, value)
NewSetAttributeClaim(permaNode, attr, value) ==
    [EmptyDoc EXCEPT !.camliType = "claim", !.permaNode = permaNode,
                     !.attribute = attr, !.value = value]

\* schema.Builder.SetSigner / SetClaimDate
SetSigner(bb, ref) == [bb EXCEPT !.camliSigner = ref]
SetClaimDate(bb, t) == [bb EXCEPT !.claimDate = RFC3339(t)]

\* schema.Builder.JSON
BuilderJSON(bb) == [len |-> 1, doc |-> bb]

\* schema.Blob.ClaimDate: (t, err); a missing field is reported as such.
BlobClaimDate(bb) ==
    IF bb.claimDate.fmt = "missing" THEN [err |-> "missing", t |-> 0]
    ELSE IF TimeParse(bb.claimDate).err THEN [err |-> "parse", t |-> 0]
    ELSE [err |-> "", t |-> TimeParse(bb.claimDate).t]

\* jsonsign.SignRequest.Sign: the signing primitive.  It fails when the text
\* is no JSON object, names no fetchable signer or the secret key cannot be
\* read (keyring); the signature carries SignatureTime, or the current time
\* when none is set.
SignRequestSign(sreq, clock, keyring) ==
    IF ~keyring \/ ~sreq.UnsignedJSON.doc.object
       \/ ~RefValid(sreq.UnsignedJSON.doc.camliSigner)
       \/ sreq.UnsignedJSON.doc.camliSigner.digest \notin sreq.Fetcher
    THEN [err |-> TRUE, signed |-> [json |-> sreq.UnsignedJSON, sigKey |-> ZeroRef, sigTime |-> 0]]
    ELSE [err |-> FALSE,
          signed |-> [json |-> sreq.UnsignedJSON,
                      sigKey |-> sreq.UnsignedJSON.doc.camliSigner,
                      sigTime |-> IF sreq.SignatureTime.set THEN sreq.SignatureTime.t ELSE clock]]

\* jsonsign.VerificationRequest.Verify: valid when the text is a signed JSON
\* object whose signer's key the fetcher holds and whose signature is by it.
Verify(sjson, fetcher) ==
    IF sjson.json.doc.object /\ RefValid(sjson.sigKey)
       /\ sjson.sigKey = sjson.json.doc.camliSigner /\ sjson.sigKey.digest \in fetcher
    THEN [ok |-> TRUE, SignerKeyId |-> sjson.sigKey.digest.keyId,
          PayloadMap |-> sjson.json.doc, Err |-> ""]
    ELSE [ok |-> FALSE, SignerKeyId |-> "", PayloadMap |-> EmptyDoc, Err |-> "verification failed"]

----------------------------------------------------------------------------
\* signhandler.Handler

ZeroHandler ==
    [constructed |-> FALSE, secretRing |-> "", pubKeyBlobRef |-> ZeroRef, pubKeyFetcher |-> {},
     pubKeyBlobRefServeSuffix |-> <<>>, pubKeyDest |-> "", pubKeyWritten |-> FALSE, entity |-> ""]

\* Handler.DiscoveryMap: the keys of the map and the values vivify reads.
DiscoveryMap(h, base) ==
    [keys |-> {"publicKeyId", "signHandler", "verifyHandler"}
                \cup (IF RefValid(h.pubKeyBlobRef) THEN {"publicKeyBlobRef", "publicKey"} ELSE {}),
     publicKeyId |-> h.entity,
     publicKeyBlobRef |-> RefString(h.pubKeyBlobRef)]

\* Handler.Sign, lines 549-556: the SignatureTime of the request.
SignatureTimeForBug(cd) == NoTime
SignatureTimeFor(cd) ==
    IF cd.err = "" THEN TimeOf(cd.t) ELSE NoTime

\* Handler.Sign(bb): (signed, err)
HandlerSignBug(h, bb, clock, keyring) ==
    LET bb1 == SetSigner(bb, h.pubKeyBlobRef)
        cd == BlobClaimDate(bb1)
        sreq == [UnsignedJSON |-> BuilderJSON(bb1), Fetcher |-> h.pubKeyFetcher,
                 ServerMode |-> TRUE, SecretKeyringPath |-> h.secretRing,
                 SignatureTime |-> SignatureTimeFor(cd)]
    IN  [err |-> SignRequestSign(sreq, clock, keyring).err,
         signed |-> SignRequestSign(sreq, clock, keyring).signed,
         called |-> TRUE]
HandlerSign(h, bb, clock, keyring) ==
    LET bb1 == SetSigner(bb, h.pubKeyBlobRef)
        cd == BlobClaimDate(bb1)
        sreq == [UnsignedJSON |-> BuilderJSON(bb1), Fetcher |-> h.pubKeyFetcher,
                 ServerMode |-> TRUE, SecretKeyringPath |-> h.secretRing,
                 SignatureTime |-> SignatureTimeFor(cd)]
    IN  IF cd.err = "parse"
        THEN [err |-> TRUE, signed |-> [json |-> BuilderJSON(bb1), sigKey |-> ZeroRef, sigTime |-> 0],
              called |-> FALSE]
        ELSE [err |-> SignRequestSign(sreq, clock, keyring).err,
              signed |-> SignRequestSign(sreq, clock, keyring).signed,
              called |-> TRUE]

----------------------------------------------------------------------------
\* The upload request: text, wire and connection.

NoName == RefString(ZeroRef)

\* One piece of an error text: fixed words and the ref or form key printed in them.
Tok(text, name) == [text |-> text, name |-> name]
NL == Tok("\n", NoName)

\* strings.Contains on paths, a path being its sequence of segments.
StringsContains(s, sub) ==
    \E i \in 0..(Len(s) - Len(sub)) : SubSeq(s, i + 1, i + Len(sub)) = sub

UploadPath == <<"/camli", "/upload">>

\* mime.ParseMediaType of a Content-Disposition value: (mediatype, err)
ParseMediaType(v) ==
    IF v = "" THEN [err |-> TRUE, mediatype |-> ""] ELSE [err |-> FALSE, mediatype |-> v]

\* What multipart.NextPart can return: a part, io.EOF or another error.
Part(disposition, name, body) ==
    [kind |-> "part", disposition |-> disposition, name |-> name, body |-> body]
EOF == [kind |-> "EOF", disposition |-> "", name |-> NoName, body |-> Junk]
ReadError == [kind |-> "error", disposition |-> "", name |-> NoName, body |-> Junk]

\* The parts a client sends: each uploadable blob under its own ref, one body
\* that does not digest to the ref it is sent under, a form key that is no
\* ref, a disposition other than form-data and a part with no disposition.
Parts ==
    {Part("form-data", RefString(SHA1FromString(b)), b) : b \in UploadableBlobs}
    \cup {Part("form-data", RefString(SHA1FromString(F1)), Junk),
          Part("form-data", NotARef, Junk), Part("attachment", NotARef, Junk),
          Part("", NotARef, Junk)}

\* The http.ResponseWriter: the status sent (0: none yet), the bodies written
\* and the X-Camlistore-Vivified headers added.
NewConn == [status |-> 0, writes |-> <<>>, vivified |-> <<>>]

NilRet == [isNil |-> TRUE, keys |-> {}, received |-> <<>>, errorText |-> <<>>]

\* http.Error, httputil.BadRequestError, httputil.ServeError: the status code
\* (the first one written stands) and an error body.
WriteError(conn, code) ==
    [conn EXCEPT !.status = IF @ = 0 THEN code ELSE @,
                 !.writes = Append(@, [kind |-> "error", code |-> code, body |-> NilRet])]

\* conn.Header().Add("X-Camlistore-Vivified", v): the headers go out with the
\* status; a header added after that is not sent.
HeaderAdd(conn, v) ==
    IF conn.status = 0 THEN [conn EXCEPT !.vivified = Append(@, v)] ELSE conn

\* httputil.ReturnJSON: the map as a JSON body, status 200 unless one was sent.
ReturnJSON(conn, m) ==
    [conn EXCEPT !.status = IF @ = 0 THEN 200 ELSE @,
                 !.writes = Append(@, [kind |-> "json", code |-> 200, body |-> m])]

\* One call, for the history: who made it, what was called, with which ref,
\* and whether it returned an error.
Call(by, op, ref, err) == [by |-> by, op |-> op, ref |-> ref, err |-> err]

NoReceiver == [impl |-> "", streamingFetcher |-> FALSE]

\* The locals of a vivify call that has published its permanode (an optional
\* value is a sequence of at most one element).
NoVivify == [permanode |-> <<>>, claimDate |-> 0, publicKeyBlobRef |-> NoName,
             before |-> {}, signatures |-> 0, receives |-> <<>>]

\* A request as it reaches the handler; its client sends at most limit parts,
\* each out of menu.
NewRequest(method, path, multipart, vivifyHdr, limit, menu) ==
    [pc |-> "start", method |-> method, path |-> path, multipart |-> multipart,
     vivifyHdr |-> vivifyHdr, limit |-> limit, menu |-> menu,
     blobReceiver |-> NoReceiver, stream |-> <<>>, receivedBlobs |-> <<>>,
     errText |-> <<>>, errs |-> <<>>, ret |-> NilRet, conn |-> NewConn,
     vi |-> 1, viv |-> NoVivify, calls |-> <<>>, vlog |-> <<>>]

NoRequest == [NewRequest("", <<>>, FALSE, "", 0, {}) EXCEPT !.pc = "none"]

----------------------------------------------------------------------------
\* handleMultiPartUpload

\* wrapReceiveConfiger: the receiver the request uses when the storage is a
\* ContextWrapper.  A wrapped value that is no BlobReceiveConfiger is put in a
\* mixAndMatch, whose method set is ReceiveBlob and Config only.
wrapReceiveConfiger(cw) ==
    IF cw.wrapsTo = "BlobReceiveConfiger"
    THEN [impl |-> "wrapped", streamingFetcher |-> cw.wrappedStreamingFetcher]
    ELSE [impl |-> "mixAndMatch", streamingFetcher |-> FALSE]

\* addError: the closure of lines 170-177.
addError(q, s) ==
    [q EXCEPT !.errText = IF @ = <<>> THEN s ELSE @ \o <<NL>> \o s,
              !.errs = Append(@, s)]

\* break / continue of the ingestion loop
Break(q) == [q EXCEPT !.pc = "respond"]
Continue(q) == q

\* lines 184-187
OnReadError(q) ==
    Break(addError(q, <<Tok("Error reading multipart section", NoName)>>))

\* lines 190-193
OnInvalidDispositionBug(q) ==
    Continue(addError(q, <<Tok("invalid Content-Disposition", NoName)>>))
OnInvalidDisposition(q) ==
    Break(addError(q, <<Tok("invalid Content-Disposition", NoName)>>))

\* lines 195-198
OnWrongDisposition(q, contentDisposition) ==
    Break(addError(q, <<Tok("Expected Content-Disposition of form-data; got", NoName),
                        Tok(contentDisposition, NoName)>>))

\* lines 202-205
OnBadNameBug(q, formName) ==
    Break(addError(q, <<Tok("Ignoring form key", formName)>>))
OnBadName(q, formName) ==
    Continue(addError(q, <<Tok("Ignoring form key", formName)>>))

\* lines 225-228
OnReceiveError(q, ref) ==
    Break(addError(q, <<Tok("Error receiving blob", RefString(ref)), NL>>))

\* lines 149-177: the receiver, the method and path check, the multipart reader.
BeginBug(q, sto) ==
    LET q1 == IF sto.contextWrapper
              THEN [q EXCEPT !.blobReceiver = wrapReceiveConfiger(sto),
                             !.calls = Append(@, Call("handleMultiPartUpload", "WrapContext", ZeroRef, FALSE))]
              ELSE [q EXCEPT !.blobReceiver =
                        [impl |-> "storage", streamingFetcher |-> sto.streamingFetcher]]
    IN  IF ~StringsContains(q1.path, UploadPath)
        THEN [q1 EXCEPT !.conn = WriteError(@, 400), !.pc = "done"]
        ELSE IF ~q1.multipart
        THEN [q1 EXCEPT !.conn = WriteError(@, 400), !.pc = "done"]
        ELSE [q1 EXCEPT !.pc = "loop"]
Begin(q, sto) ==
    LET q1 == IF sto.contextWrapper
              THEN [q EXCEPT !.blobReceiver = wrapReceiveConfiger(sto),
                             !.calls = Append(@, Call("handleMultiPartUpload", "WrapContext", ZeroRef, FALSE))]
              ELSE [q EXCEPT !.blobReceiver =
                        [impl |-> "storage", streamingFetcher |-> sto.streamingFetcher]]
    IN  IF ~(q1.method = "POST" /\ StringsContains(q1.path, UploadPath))
        THEN [q1 EXCEPT !.conn = WriteError(@, 400), !.pc = "done"]
        ELSE IF ~q1.multipart
        THEN [q1 EXCEPT !.conn = WriteError(@, 400), !.pc = "done"]
        ELSE [q1 EXCEPT !.pc = "loop"]

\* lines 179-231: one iteration of the ingestion loop, ev being what NextPart
\* returns and io whether the storage fails this receive.
LoopBody(q, sto, ev, io) ==
    LET q1 == [q EXCEPT !.stream = Append(@, ev),
                        !.calls = Append(@, Call("handleMultiPartUpload", "NextPart", ZeroRef,
                                                 ev.kind = "error"))]
        md == ParseMediaType(ev.disposition)
        p == BlobParse(ev.name)
        rb == ReceiveBlob(sto, p.ref, ev.body, io)
        q2 == [q1 EXCEPT !.calls = Append(@, Call("handleMultiPartUpload", "ReceiveBlob", p.ref,
                                                  rb.err))]
    IN  IF ev.kind = "EOF" THEN [q |-> Break(q1), store |-> sto]
        ELSE IF ev.kind = "error" THEN [q |-> OnReadError(q1), store |-> sto]
        ELSE IF md.err THEN [q |-> OnInvalidDisposition(q1), store |-> sto]
        ELSE IF md.mediatype # "form-data"
        THEN [q |-> OnWrongDisposition(q1, md.mediatype), store |-> sto]
        ELSE IF ~p.ok THEN [q |-> OnBadName(q1, ev.name), store |-> sto]
        ELSE IF rb.err THEN [q |-> OnReceiveError(q2, p.ref), store |-> rb.store]
        ELSE [q |-> Continue([q2 EXCEPT !.receivedBlobs = Append(@, rb.got)]),
              store |-> rb.store]

\* commonUploadResponse: (ret, err)
commonUploadResponse(cfg) ==
    IF cfg.isNil
    THEN [err |-> TRUE, ret |-> NilRet]
    ELSE IF ~cfg.urlBaseOK
    THEN [err |-> TRUE,
          ret |-> [NilRet EXCEPT !.isNil = FALSE,
                                 !.keys = {"maxUploadSize", "uploadUrlExpirationSeconds"}]]
    ELSE [err |-> FALSE,
          ret |-> [NilRet EXCEPT !.isNil = FALSE,
                                 !.keys = {"maxUploadSize", "uploadUrlExpirationSeconds", "uploadUrl"}]]

\* lines 238-244: the received list of the response
ReceivedList(receivedBlobs) ==
    [i \in 1..Len(receivedBlobs) |->
        [blobRef |-> RefString(receivedBlobs[i].Ref), size |-> receivedBlobs[i].Size]]

\* lines 233-247: the response map is built; storing into the nil map that
\* commonUploadResponse returns with some of its errors panics.
Respond(q, cfg) ==
    LET cr == commonUploadResponse(cfg)
        q1 == IF cr.err THEN [q EXCEPT !.conn = WriteError(@, 500)] ELSE q
    IN  IF cr.ret.isNil
        THEN [q1 EXCEPT !.pc = "panic"]
        ELSE [q1 EXCEPT !.ret = [cr.ret EXCEPT !.keys = @ \cup {"received"},
                                               !.received = ReceivedList(q.receivedBlobs)],
                        !.vi = 1,
                        !.pc = IF q.vivifyHdr = "1" /\ q.receivedBlobs # <<>>
                               THEN "vivify" ELSE "finish"]

\* lines 258-262
Finish(q) ==
    LET ret == IF q.errText # <<>>
               THEN [q.ret EXCEPT !.keys = @ \cup {"errorText"}, !.errorText = q.errText]
               ELSE q.ret
    IN  [q EXCEPT !.ret = ret, !.conn = ReturnJSON(@, ret), !.pc = "done"]

----------------------------------------------------------------------------
\* vivify

\* blob.MustParse of the string DiscoveryMap gave
MustParse(name) == BlobParse(name).ref

\* lines 70-119: the receiver must fetch, the file must read back whole, the
\* "jsonsign" handler must be found and the modification time must parse.
\* The error ("" when none), and what the later steps use.
vivifyChecksBug(recv, cfg, h, sto, fileblob) ==
    LET blob == fileblob.Ref.digest
        disco == DiscoveryMap(h, <<>>)
        fail(msg) == [err |-> msg, claimDate |-> 0, publicKeyBlobRef |-> NoName]
    IN  IF ~recv.streamingFetcher THEN fail("BlobReceiver is not a StreamingFetcher")
        ELSE IF blob \notin sto \/ blob.camliType # "file"
        THEN fail("Filereader error for blobref")
        ELSE IF cfg.isNil THEN fail("blobReceiver has no config")
        ELSE IF cfg.handlerFinder = "nil" THEN fail("blobReceiver config has no HandlerFinder")
        ELSE IF cfg.jsonsign = "notfound" THEN fail("jsonsign handler not found")
        ELSE IF cfg.jsonsign # "signhandler" THEN fail("handler is not a JSON signhandler")
        ELSE IF "publicKeyBlobRef" \notin disco.keys THEN fail("Discovery: json decoding error")
        ELSE IF TimeParse(blob.unixMtime).err THEN fail("While parsing modtime for file")
        ELSE [err |-> "", claimDate |-> TimeParse(blob.unixMtime).t,
              publicKeyBlobRef |-> disco.publicKeyBlobRef]
vivifyChecks(recv, cfg, h, sto, fileblob) ==
    LET blob == fileblob.Ref.digest
        disco == DiscoveryMap(h, <<>>)
        fail(msg) == [err |-> msg, claimDate |-> 0, publicKeyBlobRef |-> NoName]
    IN  IF ~recv.streamingFetcher THEN fail("BlobReceiver is not a StreamingFetcher")
        ELSE IF blob \notin sto \/ blob.camliType # "file"
        THEN fail("Filereader error for blobref")
        ELSE IF Len(blob.bytes) # blob.size THEN fail("Could not read all file of blobref")
        ELSE IF cfg.isNil THEN fail("blobReceiver has no config")
        ELSE IF cfg.handlerFinder = "nil" THEN fail("blobReceiver config has no HandlerFinder")
        ELSE IF cfg.jsonsign = "notfound" THEN fail("jsonsign handler not found")
        ELSE IF cfg.jsonsign # "signhandler" THEN fail("handler is not a JSON signhandler")
        ELSE IF "publicKeyBlobRef" \notin disco.keys THEN fail("Discovery: json decoding error")
        ELSE IF TimeParse(blob.unixMtime).err THEN fail("While parsing modtime for file")
        ELSE [err |-> "", claimDate |-> TimeParse(blob.unixMtime).t,
              publicKeyBlobRef |-> disco.publicKeyBlobRef]

\* The outcome of one half of vivify: the error ("" when none), the store, the
\* signed object, and what the half called: the signing primitive (the number
\* of signatures it made) and ReceiveBlob (its calls).
VivifyOutcome(err, sto, signed, signatures, receives, chk) ==
    [err |-> err, store |-> sto, signed |-> signed, signatures |-> signatures,
     receives |-> receives, claimDate |-> chk.claimDate,
     publicKeyBlobRef |-> chk.publicKeyBlobRef]

\* lines 121-132: the planned permanode is signed and published.
PublishPermanodeBug(h, sto, fileblob, chk, clock, keyring, io) ==
    LET permanodeBB == SetClaimDate(
                           SetSigner(NewHashPlannedPermanode(fileblob.Ref.digest.bytes),
                                     MustParse(chk.publicKeyBlobRef)),
                           chk.claimDate)
        sg == HandlerSign(h, permanodeBB, clock, keyring)
        permanodeRef == SHA1FromString(sg.signed)
        rb == ReceiveBlob(sto, permanodeRef, sg.signed, io)
        sigs == IF sg.called /\ ~sg.err THEN 1 ELSE 0
    IN  IF sg.err
        THEN VivifyOutcome("Signing permanode", sto, <<>>, sigs, <<>>, chk)
        ELSE VivifyOutcome("", rb.store, <<sg.signed>>, sigs,
                           <<Call("vivify", "ReceiveBlob", permanodeRef, rb.err)>>, chk)
PublishPermanode(h, sto, fileblob, chk, clock, keyring, io) ==
    LET permanodeBB == SetClaimDate(
                           SetSigner(NewHashPlannedPermanode(fileblob.Ref.digest.bytes),
                                     MustParse(chk.publicKeyBlobRef)),
                           chk.claimDate)
        sg == HandlerSign(h, permanodeBB, clock, keyring)
        permanodeRef == SHA1FromString(sg.signed)
        rb == ReceiveBlob(sto, permanodeRef, sg.signed, io)
        sigs == IF sg.called /\ ~sg.err THEN 1 ELSE 0
    IN  IF sg.err
        THEN VivifyOutcome("Signing permanode", sto, <<>>, sigs, <<>>, chk)
        ELSE IF rb.err
        THEN VivifyOutcome("While uploading signed permanode", rb.store, <<>>, sigs,
                           <<Call("vivify", "ReceiveBlob", permanodeRef, TRUE)>>, chk)
        ELSE VivifyOutcome("", rb.store, <<sg.signed>>, sigs,
                           <<Call("vivify", "ReceiveBlob", permanodeRef, FALSE)>>, chk)

\* lines 69-132: vivify up to the publication of the permanode.
vivifyPermanode(recv, cfg, h, sto, fileblob, clock, keyring, io) ==
    LET chk == vivifyChecks(recv, cfg, h, sto, fileblob)
    IN  IF chk.err # ""
        THEN VivifyOutcome(chk.err, sto, <<>>, 0, <<>>, chk)
        ELSE PublishPermanode(h, sto, fileblob, chk, clock, keyring, io)

\* lines 134-146: the camliContent claim on the permanode is signed and published.
vivifyClaimBug(h, sto, fileblob, viv, clock, keyring, io) ==
    LET permanodeRef == SHA1FromString(viv.permanode[1])
        contentClaimBB == SetClaimDate(
                              SetSigner(NewSetAttributeClaim(permanodeRef, "camliContent",
                                                             fileblob.Ref),
                                        MustParse(viv.publicKeyBlobRef)),
                              clock)
        sg == HandlerSign(h, contentClaimBB, clock, keyring)
        contentClaimRef == SHA1FromString(sg.signed)
        rb == ReceiveBlob(sto, contentClaimRef, sg.signed, io)
        sigs == IF sg.called /\ ~sg.err THEN 1 ELSE 0
    IN  IF sg.err
        THEN VivifyOutcome("Signing camliContent claim", sto, <<>>, sigs, <<>>, viv)
        ELSE IF rb.err
        THEN VivifyOutcome("While uploading signed camliContent claim", rb.store, <<>>, sigs,
                           <<Call("vivify", "ReceiveBlob", contentClaimRef, TRUE)>>, viv)
        ELSE VivifyOutcome("", rb.store, <<sg.signed>>, sigs,
                           <<Call("vivify", "ReceiveBlob", contentClaimRef, FALSE)>>, viv)
vivifyClaim(h, sto, fileblob, viv, clock, keyring, io) ==
    LET permanodeRef == SHA1FromString(viv.permanode[1])
        contentClaimBB == SetClaimDate(
                              SetSigner(NewSetAttributeClaim(permanodeRef, "camliContent",
                                                             fileblob.Ref),
                                        MustParse(viv.publicKeyBlobRef)),
                              viv.claimDate)
        sg == HandlerSign(h, contentClaimBB, clock, keyring)
        contentClaimRef == SHA1FromString(sg.signed)
        rb == ReceiveBlob(sto, contentClaimRef, sg.signed, io)
        sigs == IF sg.called /\ ~sg.err THEN 1 ELSE 0
    IN  IF sg.err
        THEN VivifyOutcome("Signing camliContent claim", sto, <<>>, sigs, <<>>, viv)
        ELSE IF rb.err
        THEN VivifyOutcome("While uploading signed camliContent claim", rb.store, <<>>, sigs,
                           <<Call("vivify", "ReceiveBlob", contentClaimRef, TRUE)>>, viv)
        ELSE VivifyOutcome("", rb.store, <<sg.signed>>, sigs,
                           <<Call("vivify", "ReceiveBlob", contentClaimRef, FALSE)>>, viv)

\* lines 248-255: what the handler does with the result of vivify(got), and
\* the step to the next received blob.
AfterVivify(q, err) ==
    LET got == q.receivedBlobs[q.vi]
        q1 == IF err # ""
              THEN addError(q, <<Tok("Error vivifying blob", RefString(got.Ref)),
                                 Tok(err, NoName), NL>>)
              ELSE [q EXCEPT !.conn = HeaderAdd(@, RefString(got.Ref))]
    IN  [q1 EXCEPT !.vi = @ + 1, !.viv = NoVivify,
                   !.pc = IF q.vi + 1 > Len(q.receivedBlobs) THEN "finish" ELSE "vivify"]

\* One finished vivify call, for the history: what it was called with, what it
\* returned, the objects it signed and published, the blobs the store holds
\* after it that it did not hold before it, and the calls it made.
VivifyRecord(r, q, err, permanode, claim, before, after, signatures, receives) ==
    [req |-> r, fileblob |-> q.receivedBlobs[q.vi], err |-> err,
     permanode |-> permanode, claim |-> claim, added |-> after \ before,
     signatures |-> signatures, receives |-> receives]

----------------------------------------------------------------------------
\* The signing service: construction and key publication.

kMaxJSONLength == 1048576

ArmoredKeyOf(keyId) == [camliType |-> "pgp-public-key", keyId |-> keyId]

KeyIds == {"26F5ABDA", "0A1B2C3D"}

\* Handler.uploadPublicKey against the destination's blobs: the error, the
\* destination afterwards and the storage calls made.
uploadPublicKeyBug(h, sto, key, io) ==
    [err |-> ReceiveBlob(sto, h.pubKeyBlobRef, key, io).err,
     store |-> ReceiveBlob(sto, h.pubKeyBlobRef, key, io).store,
     ops |-> <<"StatBlob", "ReceiveBlob">>]
uploadPublicKey(h, sto, key, io) ==
    IF ~StatBlob(sto, h.pubKeyBlobRef).err
    THEN [err |-> FALSE, store |-> sto, ops |-> <<"StatBlob">>]
    ELSE [err |-> ReceiveBlob(sto, h.pubKeyBlobRef, key, io).err,
          store |-> ReceiveBlob(sto, h.pubKeyBlobRef, key, io).store,
          ops |-> <<"StatBlob", "ReceiveBlob">>]

\* The suffix the public key is served at: "camli/" + ref
ServeSuffix(ref) == [p |-> "camli/", ref |-> RefString(ref)]
SubPath(p) == [p |-> p, ref |-> NoName]

\* newJSONSignFromConfig(ld, conf): (handler, err), with what the loader and
\* the key ring answer (env).  The armored key is the empty string when
\* ArmoredPublicKey fails: its error is overwritten unread (lines 382-385).
newJSONSignFromConfig(conf, sto, env) ==
    LET h1 == [ZeroHandler EXCEPT !.secretRing = conf.secretRing, !.entity = conf.keyId]
        armoredPublicKey == IF env.armorOK THEN ArmoredKeyOf(conf.keyId) ELSE ArmoredKeyOf("")
        h2 == [h1 EXCEPT !.pubKeyBlobRef = SHA1FromString(armoredPublicKey),
                         !.pubKeyFetcher = {armoredPublicKey}]
        h3 == [h2 EXCEPT !.pubKeyDest = conf.publicKeyDest]
        up == uploadPublicKey(h3, sto, armoredPublicKey, env.io)
        done(h) == [h EXCEPT !.constructed = TRUE,
                             !.pubKeyBlobRefServeSuffix = <<ServeSuffix(h.pubKeyBlobRef)>>]
        failed(st, ops) == [err |-> TRUE, h |-> ZeroHandler, store |-> st, ops |-> ops,
                            ref |-> h2.pubKeyBlobRef]
    IN  IF ~conf.valid \/ ~env.entityOK THEN failed(sto, <<>>)
        ELSE IF conf.publicKeyDest = ""
        THEN [err |-> FALSE, h |-> done(h2), store |-> sto, ops |-> <<>>, ref |-> h2.pubKeyBlobRef]
        ELSE IF env.getStorage = "err" THEN failed(sto, <<>>)
        ELSE IF env.getStorage = "nil"
        THEN [err |-> FALSE, h |-> done([h2 EXCEPT !.pubKeyDest = "nil"]), store |-> sto,
              ops |-> <<>>, ref |-> h2.pubKeyBlobRef]
        ELSE IF up.err THEN failed(up.store, up.ops)
        ELSE [err |-> FALSE, h |-> done(h3), store |-> up.store, ops |-> up.ops,
              ref |-> h2.pubKeyBlobRef]

Confs ==
    [publicKeyDest : {"", "/bs/"}, keyId : KeyIds, secretRing : {""}, valid : BOOLEAN]

\* What the key ring, the loader and the destination answer during one
\* construction: all is well, or one of them fails.
Envs ==
    {e \in [entityOK : BOOLEAN, armorOK : BOOLEAN, getStorage : {"ok", "err", "nil"},
            io : BOOLEAN] :
        Cardinality({f \in {"entity", "armor", "storage", "io"} :
                        \/ f = "entity" /\ ~e.entityOK
                        \/ f = "armor" /\ ~e.armorOK
                        \/ f = "storage" /\ e.getStorage # "ok"
                        \/ f = "io" /\ e.io}) <= 1}

\* The handler of a server that started with key 26F5ABDA and no publication
\* destination.
StartedHandler ==
    newJSONSignFromConfig(
        [publicKeyDest |-> "", keyId |-> "26F5ABDA", secretRing |-> "", valid |-> TRUE],
        {},
        [entityOK |-> TRUE, armorOK |-> TRUE, getStorage |-> "ok", io |-> FALSE]).h

----------------------------------------------------------------------------
\* The signing service: ServeHTTP.

NotJSON == [EmptyDoc EXCEPT !.object = FALSE]
EmptyString == [len |-> 0, doc |-> NotJSON]
Unsigned(json) == [json |-> json, sigKey |-> ZeroRef, sigTime |-> 0]

\* What the service answers: the status, the handler ServeHTTP dispatched to,
\* the keys and signatureValid of a JSON body (-1: no such key), the signed
\* text written, and whether the signing primitive was called.
Response(status, handler, keys, signatureValid, signed, signCalled) ==
    [status |-> status, handler |-> handler, keys |-> keys,
     signatureValid |-> signatureValid, signed |-> signed, signCalled |-> signCalled]

\* Handler.handleVerify
handleVerifyBug(h, form) ==
    LET v == Verify(form.sjson, h.pubKeyFetcher)
    IN  IF form.sjson = Unsigned(EmptyString)
        THEN Response(400, "handleVerify", {}, -1, <<>>, FALSE)
        ELSE IF v.ok
        THEN Response(200, "handleVerify", {"signatureValid", "signerKeyId", "verifiedData"},
                      1, <<>>, FALSE)
        ELSE Response(400, "handleVerify", {"signatureValid", "errorMessage"}, 0, <<>>, FALSE)
handleVerify(h, form) ==
    LET v == Verify(form.sjson, h.pubKeyFetcher)
    IN  IF form.sjson = Unsigned(EmptyString)
        THEN Response(400, "handleVerify", {}, -1, <<>>, FALSE)
        ELSE IF v.ok
        THEN Response(200, "handleVerify", {"signatureValid", "signerKeyId", "verifiedData"},
                      1, <<>>, FALSE)
        ELSE Response(200, "handleVerify", {"signatureValid", "errorMessage"}, 0, <<>>, FALSE)

\* Handler.handleSign
handleSignBug(h, form, clock, keyring) ==
    LET sreq == [UnsignedJSON |-> form.json, Fetcher |-> h.pubKeyFetcher, ServerMode |-> TRUE,
                 SecretKeyringPath |-> h.secretRing, SignatureTime |-> NoTime]
        sg == SignRequestSign(sreq, clock, keyring)
    IN  IF form.json = EmptyString
        THEN Response(400, "handleSign", {}, -1, <<>>, FALSE)
        ELSE IF sg.err
        THEN Response(400, "handleSign", {}, -1, <<>>, TRUE)
        ELSE IF form.json.len > kMaxJSONLength
        THEN Response(400, "handleSign", {}, -1, <<>>, TRUE)
        ELSE Response(200, "handleSign", {}, -1, <<sg.signed>>, TRUE)
handleSign(h, form, clock, keyring) ==
    LET sreq == [UnsignedJSON |-> form.json, Fetcher |-> h.pubKeyFetcher, ServerMode |-> TRUE,
                 SecretKeyringPath |-> h.secretRing, SignatureTime |-> NoTime]
        sg == SignRequestSign(sreq, clock, keyring)
    IN  IF form.json = EmptyString
        THEN Response(400, "handleSign", {}, -1, <<>>, FALSE)
        ELSE IF form.json.len > kMaxJSONLength
        THEN Response(400, "handleSign", {}, -1, <<>>, FALSE)
        ELSE IF sg.err
        THEN Response(400, "handleSign", {}, -1, <<>>, TRUE)
        ELSE Response(200, "handleSign", {}, -1, <<sg.signed>>, TRUE)

\* Handler.ServeHTTP
ServeHTTPBug(h, req, clock, keyring) ==
    IF req.method = "GET" /\ req.subPath = SubPath("")
    THEN Response(302, "redirect", {}, -1, <<>>, FALSE)
    ELSE IF req.method = "GET" /\ <<req.subPath>> = h.pubKeyBlobRefServeSuffix
    THEN Response(200, "pubKeyHandler", {}, -1, <<>>, FALSE)
    ELSE IF req.subPath = SubPath("camli/sig/discovery")
    THEN Response(200, "DiscoveryMap", DiscoveryMap(h, <<>>).keys, -1, <<>>, FALSE)
    ELSE IF req.subPath = SubPath("camli/sig/sign")
    THEN handleSign(h, req.form, clock, keyring)
    ELSE IF req.subPath = SubPath("camli/sig/verify")
    THEN handleVerify(h, req.form)
    ELSE Response(400, "", {}, -1, <<>>, FALSE)
ServeHTTP(h, req, clock, keyring) ==
    IF req.method = "GET" /\ req.subPath = SubPath("")
    THEN Response(302, "redirect", {}, -1, <<>>, FALSE)
    ELSE IF req.method = "GET" /\ <<req.subPath>> = h.pubKeyBlobRefServeSuffix
    THEN Response(200, "pubKeyHandler", {}, -1, <<>>, FALSE)
    ELSE IF req.method = "GET"
            /\ req.subPath \in {SubPath("camli/sig/sign"), SubPath("camli/sig/verify")}
    THEN Response(400, "", {}, -1, <<>>, FALSE)
    ELSE IF req.method = "GET" /\ req.subPath = SubPath("camli/sig/discovery")
    THEN Response(200, "DiscoveryMap", DiscoveryMap(h, <<>>).keys, -1, <<>>, FALSE)
    ELSE IF req.method = "POST" /\ req.subPath = SubPath("camli/sig/sign")
    THEN handleSign(h, req.form, clock, keyring)
    ELSE IF req.method = "POST" /\ req.subPath = SubPath("camli/sig/verify")
    THEN handleVerify(h, req.form)
    ELSE Response(400, "", {}, -1, <<>>, FALSE)

\* The requests sent to the service.  The form matters to sign and verify.
SignerDoc(ref) == [EmptyDoc EXCEPT !.camliType = "claim", !.camliSigner = ref]

JsonInputs(h) ==
    {EmptyString,
     [len |-> 5, doc |-> NotJSON],
     [len |-> 5, doc |-> EmptyDoc],
     [len |-> 5, doc |-> SignerDoc(h.pubKeyBlobRef)],
     [len |-> kMaxJSONLength, doc |-> SignerDoc(h.pubKeyBlobRef)],
     [len |-> kMaxJSONLength + 1, doc |-> SignerDoc(h.pubKeyBlobRef)]}

SignedBy(ref, doc) == [json |-> [len |-> 5, doc |-> doc], sigKey |-> ref, sigTime |-> 1]

SJsonInputs(h) ==
    {Unsigned(EmptyString),
     Unsigned([len |-> 5, doc |-> NotJSON]),
     Unsigned([len |-> 5, doc |-> SignerDoc(h.pubKeyBlobRef)]),
     SignedBy(h.pubKeyBlobRef, SignerDoc(h.pubKeyBlobRef)),
     SignedBy(SHA1FromString(ArmoredKeyOf("FFFFFFFF")),
              SignerDoc(SHA1FromString(ArmoredKeyOf("FFFFFFFF")))),
     SignedBy(h.pubKeyBlobRef, SignerDoc(SHA1FromString(ArmoredKeyOf("FFFFFFFF"))))}

\* The builders handed to Handler.Sign: with a signer of their own or none,
\* and a claim date that is declared, missing or no RFC 3339 time.
SignBuilders ==
    {[EmptyDoc EXCEPT !.camliType = "claim", !.camliSigner = s, !.claimDate = d] :
        s \in {ZeroRef, SHA1FromString(ArmoredKeyOf("FFFFFFFF"))},
        d \in {RFC3339(3), MissingField, Garbled}}

NoForm == [json |-> EmptyString, sjson |-> Unsigned(EmptyString)]

SigRequests(h) ==
    {[method |-> m, subPath |-> sp, form |-> NoForm] :
        m \in {"GET", "POST", "PUT"},
        sp \in {SubPath(""), SubPath("camli/sig/sign"), SubPath("camli/sig/verify"),
                SubPath("camli/sig/discovery"), SubPath("camli/sig/other"),
                ServeSuffix(h.pubKeyBlobRef)}}
    \cup {[method |-> "POST", subPath |-> SubPath("camli/sig/sign"),
           form |-> [NoForm EXCEPT !.json = j]] : j \in JsonInputs(h)}
    \cup {[method |-> "POST", subPath |-> SubPath("camli/sig/verify"),
           form |-> [NoForm EXCEPT !.sjson = sj]] : sj \in SJsonInputs(h)}
    \cup {[method |-> "GET", subPath |-> SubPath("camli/sig/verify"),
           form |-> [NoForm EXCEPT !.sjson = SignedBy(h.pubKeyBlobRef, SignerDoc(h.pubKeyBlobRef))]]}

----------------------------------------------------------------------------
\* The inputs: the storage a server runs with and the requests it is sent.

NilConfig == [isNil |-> TRUE, urlBaseOK |-> FALSE, handlerFinder |-> "nil", jsonsign |-> "notfound"]

\* The configurations: none at all, one that lacks a piece vivify looks up,
\* one whose URL base gives no base URL for this request, and a complete one.
Configs ==
    {NilConfig}
    \cup {[isNil |-> FALSE, urlBaseOK |-> TRUE, handlerFinder |-> "nil", jsonsign |-> "notfound"]}
    \cup {[isNil |-> FALSE, urlBaseOK |-> TRUE, handlerFinder |-> "present", jsonsign |-> j] :
            j \in {"notfound", "othertype", "signhandler"}}
    \cup {[isNil |-> FALSE, urlBaseOK |-> FALSE, handlerFinder |-> "present",
           jsonsign |-> "signhandler"]}

GoodConfig ==
    [isNil |-> FALSE, urlBaseOK |-> TRUE, handlerFinder |-> "present", jsonsign |-> "signhandler"]

\* A storage that is no ContextWrapper (and fetches or not), a fetching one
\* whose WrapContext gives a BlobReceiveConfiger (that fetches or not), and a
\* fetching one whose WrapContext gives a bare BlobReceiver that fetches.
Capabilities ==
    {[contextWrapper |-> FALSE, wrapsTo |-> "", streamingFetcher |-> sf,
      wrappedStreamingFetcher |-> FALSE] : sf \in BOOLEAN}
    \cup {[contextWrapper |-> TRUE, wrapsTo |-> "BlobReceiveConfiger", streamingFetcher |-> TRUE,
           wrappedStreamingFetcher |-> wsf] : wsf \in BOOLEAN}
    \cup {[contextWrapper |-> TRUE, wrapsTo |-> "BlobReceiver", streamingFetcher |-> TRUE,
           wrappedStreamingFetcher |-> TRUE]}

Storage(cap, cfg) ==
    [contextWrapper |-> cap.contextWrapper, wrapsTo |-> cap.wrapsTo,
     streamingFetcher |-> cap.streamingFetcher,
     wrappedStreamingFetcher |-> cap.wrappedStreamingFetcher, config |-> cfg]

GoodCapability ==
    [contextWrapper |-> FALSE, wrapsTo |-> "", streamingFetcher |-> TRUE,
     wrappedStreamingFetcher |-> FALSE]

\* The storages a server is started with: every configuration of a fetching
\* storage, and every capability mix under the complete configuration.
ConfigStorages == {Storage(GoodCapability, cfg) : cfg \in Configs \cup {GoodConfig}}
CapabilityStorages == {Storage(cap, GoodConfig) : cap \in Capabilities}

VivifyHeaders == {"1", ""}

\* The parts of the requests that differ in the path only.
FewParts ==
    {Part("form-data", RefString(SHA1FromString(F1)), F1), Part("form-data", NotARef, Junk)}

\* The requests: uploads to the handler's path, with and without the vivify
\* header, and requests that differ from an upload in the method, in the
\* path or in having no multipart body.
UploadRequests(limit) ==
    {NewRequest("POST", <<"/bs", "/camli", "/upload">>, TRUE, v, limit, Parts) : v \in VivifyHeaders}
    \cup {NewRequest(m, <<"/bs", "/camli", "/upload">>, TRUE, "1", limit, Parts) : m \in {"GET", "PUT"}}
    \cup {NewRequest("POST", p, TRUE, "", limit, FewParts) :
            p \in {<<"/bs", "/camli", "/upload", "/x">>, <<"/bs", "/camli", "/stat">>,
                   <<"/bs", "/upload", "/camli">>, <<>>}}
    \cup {NewRequest("GET", <<"/bs", "/camli", "/stat">>, FALSE, "", limit, Parts)}
    \cup {NewRequest("POST", <<"/bs", "/camli", "/upload">>, FALSE, v, limit, Parts) : v \in VivifyHeaders}

\* Uploads that ask for vivification: of any parts, and of the parts that
\* tell a receiver that fetches from one that does not.
MainUpload(limit) ==
    NewRequest("POST", <<"/bs", "/camli", "/upload">>, TRUE, "1", limit, Parts)
SmallUpload(limit) ==
    NewRequest("POST", <<"/bs", "/camli", "/upload">>, TRUE, "1", limit, FewParts)

\* A server and the request it is sent: every configuration with the main
\* upload, every capability mix with the small one, and every request with
\* the storage that can do everything.
Scenarios(limit) ==
    {[storage |-> s, request |-> MainUpload(limit)] : s \in ConfigStorages}
    \cup {[storage |-> s, request |-> SmallUpload(limit)] : s \in CapabilityStorages}
    \cup {[storage |-> Storage(GoodCapability, GoodConfig), request |-> q] :
            q \in UploadRequests(limit)}

\* What NextPart can return next: the client sends at most q.limit parts.
Wire(q) ==
    IF Len(q.stream) < q.limit THEN q.menu \cup {EOF, ReadError} ELSE {EOF, ReadError}

----------------------------------------------------------------------------
\* The steps of an upload request.  A request is one goroutine; its steps
\* interleave with those of other requests at the calls into the storage.

ReqBegin(r) ==
    /\ rq[r].pc = "start"
    /\ rq' = [rq EXCEPT ![r] = Begin(rq[r], storage)]
    /\ UNCHANGED <<store, storage, hnd, now, boots, keyops, sig>>

ReqNextPartBug(r) ==
    /\ rq[r].pc = "loop"
    /\ \E ev \in Wire(rq[r]), io \in BOOLEAN :
          LET out == LoopBody(rq[r], store, ev, io)
          IN  /\ rq' = [x \in Reqs |->
                           IF x = r THEN out.q
                           ELSE [rq[x] EXCEPT !.receivedBlobs = out.q.receivedBlobs,
                                              !.errText = out.q.errText,
                                              !.errs = out.q.errs]]
              /\ store' = out.store
    /\ UNCHANGED <<storage, hnd, now, boots, keyops, sig>>
ReqNextPart(r) ==
    /\ rq[r].pc = "loop"
    /\ \E ev \in Wire(rq[r]), io \in BOOLEAN :
          LET out == LoopBody(rq[r], store, ev, io)
          IN  /\ rq' = [rq EXCEPT ![r] = out.q]
              /\ store' = out.store
    /\ UNCHANGED <<storage, hnd, now, boots, keyops, sig>>

ReqRespond(r) ==
    /\ rq[r].pc = "respond"
    /\ rq' = [rq EXCEPT ![r] = Respond(rq[r], storage.config)]
    /\ UNCHANGED <<store, storage, hnd, now, boots, keyops, sig>>

ReqVivifyPermanode(r) ==
    /\ rq[r].pc = "vivify"
    /\ \E keyring \in BOOLEAN, io \in BOOLEAN :
          LET q == rq[r]
              got == q.receivedBlobs[q.vi]
              out == vivifyPermanode(q.blobReceiver, storage.config, hnd, store, got, now,
                                     keyring, io)
              q1 == [q EXCEPT !.calls = Append(@, Call("handleMultiPartUpload", "vivify", got.Ref,
                                                       out.err # ""))
                                        \o out.receives]
              q2 == [q1 EXCEPT !.vlog = Append(@, VivifyRecord(r, q, out.err, <<>>, <<>>, store,
                                                               out.store, out.signatures,
                                                               out.receives))]
          IN  /\ store' = out.store
              /\ now' = now + out.signatures
              /\ IF out.err # ""
                 THEN rq' = [rq EXCEPT ![r] = AfterVivify(q2, out.err)]
                 ELSE rq' = [rq EXCEPT ![r] =
                                [q1 EXCEPT !.pc = "claim",
                                           !.viv = [permanode |-> out.signed,
                                                    claimDate |-> out.claimDate,
                                                    publicKeyBlobRef |-> out.publicKeyBlobRef,
                                                    before |-> store,
                                                    signatures |-> out.signatures,
                                                    receives |-> out.receives]]]
    /\ UNCHANGED <<storage, hnd, boots, keyops, sig>>

ReqVivifyClaim(r) ==
    /\ rq[r].pc = "claim"
    /\ \E keyring \in BOOLEAN, io \in BOOLEAN :
          LET q == rq[r]
              got == q.receivedBlobs[q.vi]
              out == vivifyClaim(hnd, store, got, q.viv, now, keyring, io)
              q1 == [q EXCEPT !.calls = @ \o out.receives,
                              !.vlog = Append(@, VivifyRecord(r, q, out.err, q.viv.permanode,
                                                              out.signed, q.viv.before, out.store,
                                                              q.viv.signatures + out.signatures,
                                                              q.viv.receives \o out.receives))]
          IN  /\ store' = out.store
              /\ now' = now + out.signatures
              /\ rq' = [rq EXCEPT ![r] = AfterVivify(q1, out.err)]
    /\ UNCHANGED <<storage, hnd, boots, keyops, sig>>

ReqFinish(r) ==
    /\ rq[r].pc = "finish"
    /\ rq' = [rq EXCEPT ![r] = Finish(rq[r])]
    /\ UNCHANGED <<store, storage, hnd, now, boots, keyops, sig>>

NoExchange == [served |-> 0, last |-> <<>>, signs |-> <<>>]

\* One request against a server that has started.
Init ==
    /\ store = {}
    /\ \E sc \in Scenarios(MaxParts) :
          /\ storage = sc.storage
          /\ rq = [r \in Reqs |-> IF r = 1 THEN sc.request ELSE NoRequest]
    /\ hnd = StartedHandler
    /\ now = 10
    /\ boots = 0
    /\ keyops = <<>>
    /\ sig = NoExchange

Next ==
    \E r \in Reqs :
        \/ ReqBegin(r)
        \/ ReqNextPart(r)
        \/ ReqRespond(r)
        \/ ReqVivifyPermanode(r)
        \/ ReqVivifyClaim(r)
        \/ ReqFinish(r)

Spec == Init /\ [][Next]_vars

\* Two uploads at once against a storage that can vivify.  Both clients send
\* the file F1; the first also sends a form key that is no ref.
ConcParts(r) ==
    {Part("form-data", RefString(SHA1FromString(F1)), F1)}
    \cup (IF r = 1 THEN {Part("form-data", NotARef, Junk)} ELSE {})

InitConc ==
    /\ store = {}
    /\ storage = Storage(GoodCapability, GoodConfig)
    /\ hnd = StartedHandler
    /\ now = 10
    /\ rq \in {[r \in Reqs |-> NewRequest("POST", <<"/bs", "/camli", "/upload">>, TRUE,
                                          IF r = 1 THEN v1 ELSE v2, MaxPartsConc, ConcParts(r))] :
                 v1 \in VivifyHeaders, v2 \in VivifyHeaders}
    /\ boots = 0
    /\ keyops = <<>>
    /\ sig = NoExchange

SpecConc == InitConc /\ [][Next]_vars

----------------------------------------------------------------------------
\* The steps of the signing service.

\* A start of the server: newJSONSignFromConfig builds the handler, or fails
\* and leaves none.
Construct ==
    /\ boots < MaxStartups
    /\ \E conf \in Confs, env \in Envs :
          LET out == newJSONSignFromConfig(conf, store, env)
          IN  /\ hnd' = out.h
              /\ store' = out.store
              /\ keyops' = IF out.ops # <<>>
                           THEN Append(keyops, [boot |-> boots + 1, ref |-> out.ref,
                                                err |-> out.err, ops |-> out.ops])
                           ELSE keyops
    /\ boots' = boots + 1
    /\ UNCHANGED <<storage, now, rq, sig>>

\* One request served by Handler.ServeHTTP.
ServeBug ==
    /\ hnd.constructed
    /\ sig.served < MaxSigReqs
    /\ \E req \in SigRequests(hnd), keyring \in BOOLEAN :
          LET resp == ServeHTTP(hnd, req, now, keyring)
          IN  /\ sig' = [served |-> sig.served + 1, last |-> <<[req |-> req, resp |-> resp,
                                                               fetcher |-> hnd.pubKeyFetcher,
                                                               suffix |-> hnd.pubKeyBlobRefServeSuffix]>>,
                        signs |-> <<>>]
              /\ now' = IF resp.signCalled THEN now + 1 ELSE now
              /\ store' = IF resp.handler = "pubKeyHandler"
                          THEN store \cup hnd.pubKeyFetcher ELSE store
    /\ UNCHANGED <<storage, hnd, rq, boots, keyops>>
Serve ==
    /\ hnd.constructed
    /\ sig.served < MaxSigReqs
    /\ \E req \in SigRequests(hnd), keyring \in BOOLEAN :
          LET resp == ServeHTTP(hnd, req, now, keyring)
          IN  /\ sig' = [served |-> sig.served + 1, last |-> <<[req |-> req, resp |-> resp,
                                                               fetcher |-> hnd.pubKeyFetcher,
                                                               suffix |-> hnd.pubKeyBlobRefServeSuffix]>>,
                        signs |-> <<>>]
              /\ now' = IF resp.signCalled THEN now + 1 ELSE now
    /\ UNCHANGED <<store, storage, hnd, rq, boots, keyops>>

\* One call of Handler.Sign, as vivify makes it.
SignCall ==
    /\ hnd.constructed
    /\ sig.served < MaxSigReqs
    /\ \E bb \in SignBuilders, keyring \in BOOLEAN :
          LET out == HandlerSign(hnd, bb, now, keyring)
          IN  /\ sig' = [served |-> sig.served + 1, last |-> <<>>,
                        signs |-> <<[bb |-> bb, out |-> out, signer |-> hnd.pubKeyBlobRef,
                                     clock |-> now, keyring |-> keyring]>>]
              /\ now' = IF out.called THEN now + 1 ELSE now
    /\ UNCHANGED <<store, storage, hnd, rq, boots, keyops>>

InitSign ==
    /\ store = {}
    /\ storage = Storage(GoodCapability, GoodConfig)
    /\ hnd = ZeroHandler
    /\ now = 10
    /\ rq = [r \in Reqs |-> NoRequest]
    /\ boots = 0
    /\ keyops = <<>>
    /\ sig = NoExchange

NextSign ==
    \/ Construct
    \/ Serve
    \/ SignCall

SpecSign == InitSign /\ [][NextSign]_vars

----------------------------------------------------------------------------
\* Properties of the ingestion loop.

\* Which part a call of the handler belongs to: the NextPart calls so far.
PartOf(calls, k) ==
    Cardinality({j \in 1..k : calls[j].by = "handleMultiPartUpload" /\ calls[j].op = "NextPart"})

HandlerCalls(q, op) ==
    SelectSeq(q.calls, LAMBDA c : c.by = "handleMultiPartUpload" /\ c.op = op)

\* ReceiveBlob returned an error for the i-th part.
ReceiveFailedAt(q, i) ==
    \E k \in DOMAIN q.calls :
        /\ q.calls[k].by = "handleMultiPartUpload"
        /\ q.calls[k].op = "ReceiveBlob"
        /\ q.calls[k].err
        /\ PartOf(q.calls, k) = i

FormData(ev) ==
    /\ ev.kind = "part"
    /\ ~ParseMediaType(ev.disposition).err
    /\ ParseMediaType(ev.disposition).mediatype = "form-data"

\* The i-th part is one the loop breaks at.
FatalAt(q, i) ==
    /\ q.stream[i].kind = "part"
    /\ (~FormData(q.stream[i]) \/ ReceiveFailedAt(q, i))

\* The form-data parts among the first n whose name is a valid ref, as what
\* the storage reports for them, in stream order.
RECURSIVE ValidNamed(_, _)
ValidNamed(stream, n) ==
    IF n = 0 THEN <<>>
    ELSE IF FormData(stream[n]) /\ BlobParse(stream[n].name).ok
         THEN Append(ValidNamed(stream, n - 1),
                     [Ref |-> BlobParse(stream[n].name).ref, Size |-> BlobSize(stream[n].body)])
         ELSE ValidNamed(stream, n - 1)

\* The form-data parts among the first n whose name is no ref.
BadNamed(stream, n) ==
    {j \in 1..n : FormData(stream[j]) /\ ~BlobParse(stream[j].name).ok}

\* The errors recorded by the ingestion loop (not those of the vivify loop).
IngestErrs(q) == SelectSeq(q.errs, LAMBDA m : m[1].text # "Error vivifying blob")

AllStored(blobs) == \A k \in DOMAIN blobs : blobs[k].Ref.digest \in store

JSONBodies(q) == SelectSeq(q.conn.writes, LAMBDA w : w.kind = "json")

\* The loop at a fatal part i: it is the last thing read, one error was
\* recorded for it, and what was received before it is kept.
BreaksAt(q, i) ==
    /\ i = Len(q.stream)
    /\ q.pc # "loop"
    /\ Len(HandlerCalls(q, "NextPart")) = i
    /\ Len(HandlerCalls(q, "ReceiveBlob"))
         = Len(ValidNamed(q.stream, i - 1)) + (IF ReceiveFailedAt(q, i) THEN 1 ELSE 0)
    /\ Len(IngestErrs(q)) = Cardinality(BadNamed(q.stream, i - 1)) + 1
    /\ q.receivedBlobs = ValidNamed(q.stream, i - 1)
    /\ AllStored(q.receivedBlobs)

\* The ingestion loop breaks at the first fatal part and keeps what it received.
LoopBreaksAtFatalPart ==
    \A r \in Reqs : \A i \in 1..Len(rq[r].stream) : FatalAt(rq[r], i) => BreaksAt(rq[r], i)

\* C1: if part i is the first part whose Content-Disposition does not parse,
\* whose disposition is not form-data or whose ReceiveBlob fails, then no part
\* after i is read or received, exactly one error is recorded for part i, and
\* every blob received before i stays stored and is listed as received in the
\* response of the request once the handler has ended.
C1_FatalPartKeepsAndReportsEarlierBlobs ==
    \A r \in Reqs : \A i \in 1..Len(rq[r].stream) :
        FatalAt(rq[r], i) =>
            /\ BreaksAt(rq[r], i)
            /\ rq[r].pc \in {"done", "panic"} =>
                  /\ JSONBodies(rq[r]) # <<>>
                  /\ JSONBodies(rq[r])[1].body.received
                        = ReceivedList(ValidNamed(rq[r].stream, i - 1))

\* C2: when every part has a form-data disposition and every ReceiveBlob
\* succeeds, a part whose name is no ref is skipped (no ReceiveBlob call, one
\* error) and the loop goes on: the received sequence is, in stream order,
\* exactly the parts whose name is a valid ref, and each of them is stored.
C2_BadNameIsSkipped ==
    \A r \in Reqs :
        LET q == rq[r]
            n == Len(q.stream)
        IN  ((\A i \in 1..n : q.stream[i].kind = "part" => FormData(q.stream[i]))
             /\ (\A i \in 1..n : ~ReceiveFailedAt(q, i)))
            => /\ q.receivedBlobs = ValidNamed(q.stream, n)
               /\ AllStored(q.receivedBlobs)
               /\ Len(HandlerCalls(q, "ReceiveBlob")) = Len(ValidNamed(q.stream, n))
               /\ Len(IngestErrs(q)) = Cardinality(BadNamed(q.stream, n))
                                        + (IF n > 0 /\ q.stream[n].kind = "error" THEN 1 ELSE 0)
               /\ (n > 0 /\ q.stream[n].kind = "part") => q.pc = "loop"

\* [A valid, B no ref, C valid] gave received = [A, C].
C2_Witness ==
    \E r \in Reqs :
        LET q == rq[r]
        IN  /\ Len(q.stream) = 3
            /\ \A i \in 1..3 : FormData(q.stream[i]) /\ ~ReceiveFailedAt(q, i)
            /\ BlobParse(q.stream[1].name).ok
            /\ ~BlobParse(q.stream[2].name).ok
            /\ BlobParse(q.stream[3].name).ok
            /\ Len(q.receivedBlobs) = 2
            /\ Len(q.errs) = 1

----------------------------------------------------------------------------
\* Properties of vivify.

\* A vivify of fileblob meets a failure before anything is signed: the
\* receiver cannot fetch, the blob is no file schema blob, its bytes read back
\* short of or beyond the declared size, the configuration or the jsonsign
\* handler is missing, the handler has no public key ref, or the modification
\* time does not parse.
PreSignFailure(q, fileblob) ==
    \/ ~q.blobReceiver.streamingFetcher
    \/ fileblob.Ref.digest.camliType # "file"
    \/ Len(fileblob.Ref.digest.bytes) # fileblob.Ref.digest.size
    \/ storage.config.isNil
    \/ storage.config.handlerFinder = "nil"
    \/ storage.config.jsonsign # "signhandler"
    \/ ~RefValid(hnd.pubKeyBlobRef)
    \/ TimeParse(fileblob.Ref.digest.unixMtime).err

\* C3: a vivify that fails before signing returns an error and calls
\* ReceiveBlob zero times: neither a permanode nor a claim is published and
\* the store is as it was.
C3_PreSignFailurePublishesNothing ==
    \A r \in Reqs : \A k \in DOMAIN rq[r].vlog :
        LET e == rq[r].vlog[k]
        IN  PreSignFailure(rq[r], e.fileblob)
            => /\ e.err # ""
               /\ e.receives = <<>>
               /\ e.signatures = 0
               /\ e.permanode = <<>>
               /\ e.claim = <<>>
               /\ e.added = {}

\* A stored file whose bytes read back short of its declared size was
\* vivified by a receiver that fetches, under a complete configuration.
C3_Witness ==
    \E r \in Reqs : \E k \in DOMAIN rq[r].vlog :
        /\ rq[r].blobReceiver.streamingFetcher
        /\ storage.config = GoodConfig
        /\ rq[r].vlog[k].fileblob.Ref = SHA1FromString(F2)
        /\ rq[r].vlog[k].err = "Could not read all file of blobref"
        /\ SHA1FromString(F2).digest \in store

IsSigned(b) == "json" \in DOMAIN b
IsClaim(b) == IsSigned(b) /\ b.json.doc.camliType = "claim"
IsPermanode(b) == IsSigned(b) /\ b.json.doc.camliType = "permanode"

\* The ReceiveBlob calls of one vivify: the permanode first, and the claim
\* only after the permanode was received without error.
PermanodeThenClaim(receives) ==
    /\ Len(receives) <= 2
    /\ \A i \in DOMAIN receives : receives[i].by = "vivify" /\ receives[i].op = "ReceiveBlob"
    /\ Len(receives) >= 1 => IsPermanode(receives[1].ref.digest)
    /\ Len(receives) = 2 =>
          /\ ~receives[1].err
          /\ IsClaim(receives[2].ref.digest)
          /\ receives[2].ref.digest.json.doc.permaNode = receives[1].ref

\* C4: under interleaved requests, vivify calls ReceiveBlob for the claim only
\* after ReceiveBlob for the permanode it refers to returned without error: a
\* stored claim's permanode is stored, and a vivify that fails after
\* publishing the permanode leaves that permanode and no claim of its own.
C4_ClaimOnlyAfterPermanode ==
    /\ \A b \in store : IsClaim(b) => b.json.doc.permaNode.digest \in store
    /\ \A r \in Reqs :
          /\ rq[r].pc = "claim" =>
                /\ rq[r].viv.permanode[1] \in store
                /\ rq[r].viv.receives
                      = <<Call("vivify", "ReceiveBlob", SHA1FromString(rq[r].viv.permanode[1]), FALSE)>>
          /\ \A k \in DOMAIN rq[r].vlog :
                LET e == rq[r].vlog[k]
                IN  /\ PermanodeThenClaim(e.receives)
                    /\ e.claim # <<>> => (e.permanode # <<>> /\ e.err = "")
                    /\ (e.err # "" /\ e.permanode # <<>>) =>
                          /\ e.claim = <<>>
                          /\ e.permanode[1] \in store
                          /\ Len(e.receives) = 2 => e.receives[2].err

\* One request's vivify failed after its permanode was stored, while the
\* other request had not finished.
C4_Witness ==
    \E r \in Reqs : \E k \in DOMAIN rq[r].vlog :
        /\ rq[r].vlog[k].err # ""
        /\ rq[r].vlog[k].permanode # <<>>
        /\ rq[r].vlog[k].permanode[1] \in store
        /\ \A b \in store : ~IsClaim(b)
        /\ \E r2 \in Reqs \ {r} : rq[r2].pc \in {"loop", "respond", "vivify", "claim"}

\* Both requests vivified the same file to the end.
C4_WitnessBoth ==
    \A r \in Reqs : \E k \in DOMAIN rq[r].vlog :
        rq[r].vlog[k].err = "" /\ rq[r].vlog[k].claim # <<>>

----------------------------------------------------------------------------
\* Properties of the response.

\* The handler has ended: it returned, or it panicked.
Ended(q) == q.pc \in {"done", "panic"}

\* C5: a POST to the upload path that carries a multipart reader gets exactly
\* one response, an HTTP success whose JSON body has the received list, and
\* errorText exactly when an error was recorded; any other request gets the
\* only HTTP-level error responses there are.
C5_OneSuccessResponse ==
    \A r \in Reqs :
        LET q == rq[r]
        IN  Ended(q) =>
              IF q.method = "POST" /\ StringsContains(q.path, UploadPath) /\ q.multipart
              THEN /\ q.pc = "done"
                   /\ q.conn.status = 200
                   /\ Len(q.conn.writes) = 1
                   /\ q.conn.writes[1].kind = "json"
                   /\ "received" \in q.conn.writes[1].body.keys
                   /\ q.conn.writes[1].body.received = ReceivedList(q.receivedBlobs)
                   /\ ("errorText" \in q.conn.writes[1].body.keys) <=> (q.errs # <<>>)
              ELSE q.conn = WriteError(NewConn, 400)

\* The request was answered with a client error and nothing else happened.
Rejected(q) ==
    /\ q.pc = "done"
    /\ q.conn = WriteError(NewConn, 400)
    /\ q.stream = <<>>
    /\ q.receivedBlobs = <<>>
    /\ \A k \in DOMAIN q.calls : q.calls[k].op \notin {"NextPart", "ReceiveBlob", "vivify"}
    /\ q.vlog = <<>>
    /\ store = {}

Begun(q) == q.pc \notin {"none", "start"}

\* strings.HasSuffix: the path ends in the suffix.
StringsHasSuffix(s, sub) ==
    Len(s) >= Len(sub) /\ SubSeq(s, Len(s) - Len(sub) + 1, Len(s)) = sub

\* C6 as stated: a request whose method is not POST or whose path does not
\* end in the upload suffix "/camli/upload" is answered with a client error
\* and nothing else happens.
C6_RejectedUnlessPostToSuffix ==
    \A r \in Reqs :
        (Begun(rq[r]) /\ (rq[r].method # "POST" \/ ~StringsHasSuffix(rq[r].path, UploadPath)))
            => Rejected(rq[r])

\* C6, amended: a request whose method is not POST or whose path does not
\* contain "/camli/upload" is answered with a client error and nothing else
\* happens: no part is read, no blob is received or stored, vivify is not
\* invoked.
C6_RejectedUnlessPostToPathContaining ==
    \A r \in Reqs :
        (Begun(rq[r]) /\ (rq[r].method # "POST" \/ ~StringsContains(rq[r].path, UploadPath)))
            => Rejected(rq[r])

\* A multipart POST to a path that has the two segments in the other order was
\* rejected, by a storage that could have vivified.
C6_Witness ==
    \E r \in Reqs :
        /\ rq[r].pc = "done"
        /\ rq[r].method = "POST"
        /\ rq[r].multipart
        /\ rq[r].path = <<"/bs", "/upload", "/camli">>
        /\ rq[r].conn.status = 400
        /\ storage = Storage(GoodCapability, GoodConfig)

VivifyCalls(q) == SelectSeq(q.calls, LAMBDA c : c.op = "vivify")

VivifyErrs(q) == SelectSeq(q.errs, LAMBDA m : m[1].text = "Error vivifying blob")

\* How often the ref is: received, sent in an X-Camlistore-Vivified header,
\* named by a vivify error.
TimesReceived(q, ref) ==
    Cardinality({j \in DOMAIN q.receivedBlobs : q.receivedBlobs[j].Ref = ref})
TimesVivifiedHeader(q, ref) ==
    Cardinality({j \in DOMAIN q.conn.vivified : q.conn.vivified[j] = RefString(ref)})
TimesVivifyError(q, ref) ==
    Cardinality({j \in DOMAIN VivifyErrs(q) : VivifyErrs(q)[j][1].name = RefString(ref)})

\* The vivify loop ran over all of the received sequence.
VivifiedAll(q) ==
    /\ Len(VivifyCalls(q)) = Len(q.receivedBlobs)
    /\ \A k \in DOMAIN q.receivedBlobs :
          /\ VivifyCalls(q)[k].ref = q.receivedBlobs[k].Ref
          /\ TimesReceived(q, q.receivedBlobs[k].Ref)
                = TimesVivifiedHeader(q, q.receivedBlobs[k].Ref)
                  + TimesVivifyError(q, q.receivedBlobs[k].Ref)

\* C7: with the header X-Camlistore-Vivify: 1, the handler that has ended has
\* invoked vivify exactly once for each entry of the received sequence, in
\* received order, and each of them has either its X-Camlistore-Vivified
\* header or its error text; without the header vivify is never invoked and
\* no permanode or claim is published.
C7_VivifyEachReceivedOnce ==
    \A r \in Reqs :
        LET q == rq[r]
        IN  /\ (Ended(q) /\ q.vivifyHdr = "1") => VivifiedAll(q)
            /\ (q.pc # "none" /\ q.vivifyHdr = "") =>
                  (VivifyCalls(q) = <<>> /\ \A b \in store : ~IsSigned(b))

----------------------------------------------------------------------------
\* Properties of repeated vivification.

\* C8: vivifying the same file blob twice gives a permanode and a claim that
\* are byte-identical to those of the first run, and the second run leaves the
\* set of stored objects as the first run left it.
C8_RevivifyIsIdentical ==
    \A r \in Reqs : \A j \in DOMAIN rq[r].vlog : \A k \in DOMAIN rq[r].vlog :
        LET first == rq[r].vlog[j]
            second == rq[r].vlog[k]
        IN  (j < k /\ first.fileblob = second.fileblob /\ first.err = "" /\ second.err = "")
            => /\ second.permanode = first.permanode
               /\ second.claim = first.claim
               /\ second.added = {}
               /\ {first.permanode[1], first.claim[1]} \subseteq store
               /\ \A i \in DOMAIN second.receives : ~second.receives[i].err

\* The same file was received twice in one request and vivified twice, the
\* clock having moved on between the two runs.
C8_Witness ==
    \E r \in Reqs :
        /\ Len(rq[r].vlog) = 2
        /\ rq[r].vlog[1].fileblob = rq[r].vlog[2].fileblob
        /\ rq[r].vlog[1].err = ""
        /\ rq[r].vlog[2].err = ""
        /\ rq[r].vlog[2].signatures = 2
        /\ now > 10

----------------------------------------------------------------------------
\* Properties of the signing service.

TimesCalled(ops, op) == Cardinality({i \in DOMAIN ops : ops[i] = op})

\* C9: of two key publications of the same key against the same destination,
\* the first having returned without error, the second makes the existence
\* check only and no write: the two make at most one ReceiveBlob in total.
C9_SecondPublicationOnlyStats ==
    \A i \in DOMAIN keyops : \A j \in DOMAIN keyops :
        (i < j /\ keyops[i].ref = keyops[j].ref /\ ~keyops[i].err)
        => /\ keyops[j].ops = <<"StatBlob">>
           /\ ~keyops[j].err
           /\ TimesCalled(keyops[i].ops, "ReceiveBlob") + TimesCalled(keyops[j].ops, "ReceiveBlob") <= 1
           /\ keyops[j].ref.digest \in store

\* Two constructions published the same key; the first wrote it.
C9_Witness ==
    /\ Len(keyops) = 2
    /\ keyops[1].ref = keyops[2].ref
    /\ ~keyops[1].err
    /\ keyops[1].ops = <<"StatBlob", "ReceiveBlob">>
    /\ keyops[2].ops = <<"StatBlob">>

VerifyPost(x) == x.req.method = "POST" /\ x.req.subPath = SubPath("camli/sig/verify")

\* C10 as stated: every POST to the verify endpoint is answered with HTTP 200
\* and a JSON body whose signatureValid is 0 or 1.
C10_VerifyAlways200 ==
    \A i \in DOMAIN sig.last :
        VerifyPost(sig.last[i])
        => /\ sig.last[i].resp.status = 200
           /\ sig.last[i].resp.signatureValid \in {0, 1}

\* C10, amended: every POST to the verify endpoint with a non-empty sjson is
\* answered with HTTP 200 and a JSON body: signatureValid 1 with signerKeyId
\* and verifiedData when verification succeeds, signatureValid 0 with
\* errorMessage when it does not; a POST without sjson is answered 400.
C10_VerifyWithSjson200 ==
    \A i \in DOMAIN sig.last :
        LET x == sig.last[i]
        IN  VerifyPost(x) =>
              IF x.req.form.sjson = Unsigned(EmptyString)
              THEN x.resp.status = 400 /\ x.resp.keys = {}
              ELSE /\ x.resp.status = 200
                   /\ x.resp.handler = "handleVerify"
                   /\ IF Verify(x.req.form.sjson, x.fetcher).ok
                      THEN /\ x.resp.signatureValid = 1
                           /\ x.resp.keys = {"signatureValid", "signerKeyId", "verifiedData"}
                      ELSE /\ x.resp.signatureValid = 0
                           /\ x.resp.keys = {"signatureValid", "errorMessage"}

\* A signature by a key the service does not hold was answered 200 with
\* signatureValid 0.
C10_Witness ==
    \E i \in DOMAIN sig.last :
        /\ VerifyPost(sig.last[i])
        /\ sig.last[i].req.form.sjson.sigKey = SHA1FromString(ArmoredKeyOf("FFFFFFFF"))
        /\ sig.last[i].resp.status = 200
        /\ sig.last[i].resp.signatureValid = 0

SignPost(x) == x.req.method = "POST" /\ x.req.subPath = SubPath("camli/sig/sign")

\* C11: a sign request whose json is longer than kMaxJSONLength is answered
\* with a client error and the signing primitive is not invoked for it; a
\* non-empty json of at most kMaxJSONLength bytes reaches the primitive.
C11_OversizedJsonIsNotSigned ==
    \A i \in DOMAIN sig.last :
        LET x == sig.last[i]
        IN  SignPost(x) =>
              /\ x.req.form.json.len > kMaxJSONLength =>
                    (x.resp.status = 400 /\ ~x.resp.signCalled /\ x.resp.signed = <<>>)
              /\ (x.req.form.json # EmptyString /\ x.req.form.json.len <= kMaxJSONLength) =>
                    x.resp.signCalled

\* A json of kMaxJSONLength + 1 bytes that would have signed was rejected.
C11_Witness ==
    \E i \in DOMAIN sig.last :
        /\ SignPost(sig.last[i])
        /\ sig.last[i].req.form.json.len = kMaxJSONLength + 1
        /\ sig.last[i].req.form.json.doc.camliSigner.digest \in sig.last[i].fetcher
        /\ sig.last[i].resp.status = 400

\* A json of exactly kMaxJSONLength bytes was signed.
C11_WitnessAtCap ==
    \E i \in DOMAIN sig.last :
        /\ SignPost(sig.last[i])
        /\ sig.last[i].req.form.json.len = kMaxJSONLength
        /\ sig.last[i].resp.status = 200
        /\ sig.last[i].resp.signed # <<>>

\* The four method and path combinations the claim names.
OneOfTheFour(x) ==
    \/ x.req.method = "GET" /\ <<x.req.subPath>> = x.suffix
    \/ x.req.method = "GET" /\ x.req.subPath = SubPath("camli/sig/discovery")
    \/ x.req.method = "POST" /\ x.req.subPath = SubPath("camli/sig/sign")
    \/ x.req.method = "POST" /\ x.req.subPath = SubPath("camli/sig/verify")

\* The handler each of the four is dispatched to.
DispatchedRight(x) ==
    /\ (x.req.method = "GET" /\ <<x.req.subPath>> = x.suffix) => x.resp.handler = "pubKeyHandler"
    /\ (x.req.method = "GET" /\ x.req.subPath = SubPath("camli/sig/discovery"))
          => x.resp.handler = "DiscoveryMap"
    /\ SignPost(x) => x.resp.handler = "handleSign"
    /\ VerifyPost(x) => x.resp.handler = "handleVerify"

NotDispatched(x) == x.resp.status = 400 /\ x.resp.handler = ""

\* C12 as stated: the service accepts exactly the four combinations; every
\* other combination is rejected with a client error and dispatched nowhere.
C12_ExactlyFourAccepted ==
    \A i \in DOMAIN sig.last :
        IF OneOfTheFour(sig.last[i])
        THEN DispatchedRight(sig.last[i])
        ELSE NotDispatched(sig.last[i])

\* C12, amended: besides the four, a GET of the empty suffix is answered with
\* a redirect (302) to the discovery endpoint; every other combination is
\* rejected with a client error and dispatched nowhere.
C12_FourAcceptedAndRootRedirected ==
    \A i \in DOMAIN sig.last :
        LET x == sig.last[i]
        IN  IF OneOfTheFour(x) THEN DispatchedRight(x)
            ELSE IF x.req.method = "GET" /\ x.req.subPath = SubPath("")
            THEN x.resp.status = 302 /\ x.resp.handler = "redirect"
            ELSE NotDispatched(x)

\* A GET of the verify endpoint, with a form that would verify, was rejected.
C12_Witness ==
    \E i \in DOMAIN sig.last :
        /\ sig.last[i].req.method = "GET"
        /\ sig.last[i].req.subPath = SubPath("camli/sig/verify")
        /\ sig.last[i].req.form # NoForm
        /\ NotDispatched(sig.last[i])

----------------------------------------------------------------------------
\* Properties of the error text.

\* The messages joined by a single newline.
RECURSIVE JoinNL(_)
JoinNL(msgs) ==
    IF msgs = <<>> THEN <<>>
    ELSE IF Len(msgs) = 1 THEN msgs[1]
    ELSE JoinNL(SubSeq(msgs, 1, Len(msgs) - 1)) \o <<NL>> \o msgs[Len(msgs)]

IsVivifyErr(m) == m[1].text = "Error vivifying blob"

\* Every error of the ingestion loop is recorded before every vivify error.
IngestionBeforeVivify(errs) ==
    \A i \in DOMAIN errs : \A j \in DOMAIN errs :
        (i < j /\ IsVivifyErr(errs[i])) => IsVivifyErr(errs[j])

\* The error text the handler holds is, at every moment, the errors recorded
\* so far joined by a single newline, ingestion errors first.
ErrTextIsJoinedErrs ==
    \A r \in Reqs :
        /\ rq[r].errText = JoinNL(rq[r].errs)
        /\ IngestionBeforeVivify(rq[r].errs)

\* C13: the response of an upload has errorText exactly when an error was
\* recorded, its value being the recorded messages joined by a single newline
\* in the order they occurred, ingestion errors before vivify errors; and it
\* always has the received field, listing the received blobs in ingestion order.
C13_ErrorTextIffErrorsAndReceivedAlways ==
    \A r \in Reqs :
        LET q == rq[r]
        IN  (Ended(q) /\ q.method = "POST" /\ StringsContains(q.path, UploadPath) /\ q.multipart) =>
              /\ JSONBodies(q) # <<>>
              /\ LET b == JSONBodies(q)[1].body
                 IN  /\ "received" \in b.keys
                     /\ b.received = ReceivedList(q.receivedBlobs)
                     /\ ("errorText" \in b.keys) <=> (q.errs # <<>>)
                     /\ ("errorText" \in b.keys) => b.errorText = JoinNL(q.errs)
                     /\ IngestionBeforeVivify(q.errs)

----------------------------------------------------------------------------
\* Properties of the claim date.

\* The modification time the file description declares, parsed.
ModTimeOf(fileblob) == TimeParse(fileblob.Ref.digest.unixMtime).t

\* The signed object declares the time as its claim date and is signed at it.
DatedAndSignedAt(signed, t) ==
    /\ signed.json.doc.claimDate = RFC3339(t)
    /\ signed.sigTime = t

\* C14: in one vivify run the file's modification time is the declared claim
\* date and the signature time of the permanode and of the camliContent claim;
\* none of the four is the time the clock showed.
C14_OneClaimDateEverywhere ==
    \A r \in Reqs :
        /\ \A k \in DOMAIN rq[r].vlog :
              LET v == rq[r].vlog[k]
              IN  /\ \A i \in DOMAIN v.permanode :
                        DatedAndSignedAt(v.permanode[i], ModTimeOf(v.fileblob))
                  /\ \A i \in DOMAIN v.claim :
                        DatedAndSignedAt(v.claim[i], ModTimeOf(v.fileblob))
        /\ \A i \in DOMAIN rq[r].viv.permanode :
              DatedAndSignedAt(rq[r].viv.permanode[i], ModTimeOf(rq[r].receivedBlobs[rq[r].vi]))
        /\ \A b \in store :
              IsSigned(b) =>
                  \E q \in Reqs : \E j \in DOMAIN rq[q].receivedBlobs :
                      DatedAndSignedAt(b, ModTimeOf(rq[q].receivedBlobs[j]))

\* A vivify run signed and published a permanode and a claim while the clock
\* showed a time that is not the file's modification time.
C14_Witness ==
    \E r \in Reqs : \E k \in DOMAIN rq[r].vlog :
        /\ rq[r].vlog[k].err = ""
        /\ rq[r].vlog[k].permanode # <<>>
        /\ rq[r].vlog[k].claim # <<>>
        /\ rq[r].vlog[k].claim[1] \in store
        /\ now # ModTimeOf(rq[r].vlog[k].fileblob)

----------------------------------------------------------------------------
\* Properties of error propagation.

\* The calls of the upload handler that returned an error.
FailedCalls(q) ==
    {k \in DOMAIN q.calls : q.calls[k].by = "handleMultiPartUpload" /\ q.calls[k].err}

\* Upload and vivification: each failed call of the loops has its entry in
\* the error text, and an error of commonUploadResponse is the sole outcome.
UploadErrorsKept(q) ==
    /\ Cardinality(FailedCalls(q)) <= Len(q.errs)
    /\ (Ended(q) /\ q.ret = NilRet /\ q.conn.status = 500) =>
          (q.pc = "done" /\ q.conn = WriteError(NewConn, 500))
    /\ (Ended(q) /\ q.conn.status = 500) => JSONBodies(q) = <<>>

\* Construction: a handler exists only when every call of the construction
\* succeeded, so the key it serves is the armored key of its entity, and a
\* failed key publication of the latest start left no handler.
ConstructionErrorsKept ==
    /\ hnd.constructed => hnd.pubKeyFetcher = {ArmoredKeyOf(hnd.entity)}
    /\ \A i \in DOMAIN keyops :
          (keyops[i].boot = boots /\ keyops[i].err) => ~hnd.constructed

\* Sign and verify: a success is answered only when the primitive succeeded.
SignErrorsKept(x) ==
    /\ (SignPost(x) /\ x.resp.status = 200) =>
          (x.resp.signed # <<>> /\ Verify(x.resp.signed[1], x.fetcher).ok)
    /\ (VerifyPost(x) /\ x.resp.signatureValid = 1) => Verify(x.req.form.sjson, x.fetcher).ok

\* C15: errors are never silently dropped: in upload handling, vivification,
\* construction of the signing service, sign and verify, an error returned by
\* a call is an entry of the error text or the sole outcome of the operation,
\* and no operation goes on to a success after an error it neither recorded
\* nor returned.
C15_ErrorsNeverDropped ==
    /\ \A r \in Reqs : UploadErrorsKept(rq[r])
    /\ ConstructionErrorsKept
    /\ \A i \in DOMAIN sig.last : SignErrorsKept(sig.last[i])

----------------------------------------------------------------------------
\* Properties of concurrent uploads.

\* The ReceiveBlob calls of the request's own loop that succeeded.
OwnReceives(q) ==
    SelectSeq(q.calls, LAMBDA c : c.by = "handleMultiPartUpload" /\ c.op = "ReceiveBlob" /\ ~c.err)

\* The parts of the request's own stream that the loop records an error for.
OwnFailedParts(q) ==
    BadNamed(q.stream, Len(q.stream))
    \cup {i \in DOMAIN q.stream : q.stream[i].kind = "error" \/ FatalAt(q, i)}

\* The received sequence and the error text of the request come from its own
\* parts and its own vivify runs, and from nothing else.
OwnEntriesOnly(r) ==
    LET q == rq[r]
    IN  /\ Len(q.receivedBlobs) = Len(OwnReceives(q))
        /\ \A k \in DOMAIN q.receivedBlobs : q.receivedBlobs[k].Ref = OwnReceives(q)[k].ref
        /\ Len(IngestErrs(q)) = Cardinality(OwnFailedParts(q))
        /\ Len(VivifyErrs(q)) = Cardinality({k \in DOMAIN q.vlog : q.vlog[k].err # ""})
        /\ \A k \in DOMAIN q.vlog : q.vlog[k].req = r
        /\ Len(q.errs) = Len(IngestErrs(q)) + Len(VivifyErrs(q))
        /\ q.errText = JoinNL(q.errs)

\* C16: when upload requests run at once against the same storage, under
\* every interleaving each request's received sequence and error text hold
\* only what its own parts and its own vivifications produced.
C16_RequestScopedReceivedAndErrors == \A r \in Reqs : OwnEntriesOnly(r)

\* Both requests ended after their steps interleaved: one has an error and
\* received nothing, the other received a blob and has no error.
C16_Witness ==
    /\ \A r \in Reqs : rq[r].pc = "done"
    /\ rq[1].errs # <<>> /\ rq[1].receivedBlobs = <<>>
    /\ rq[2].errs = <<>> /\ rq[2].receivedBlobs # <<>>
    /\ JSONBodies(rq[1]) # <<>> /\ "errorText" \in JSONBodies(rq[1])[1].body.keys
    /\ JSONBodies(rq[2]) # <<>> /\ "errorText" \notin JSONBodies(rq[2])[1].body.keys

----------------------------------------------------------------------------
\* Properties of the handler after construction.

\* Every key publication belongs to one start of the service; it writes the
\* key at most once, and what the destination holds was written by one.
PublishedByConstructionOnly ==
    /\ Len(keyops) <= boots
    /\ \A i \in DOMAIN keyops : \A j \in DOMAIN keyops :
          keyops[i].boot = keyops[j].boot => i = j
    /\ \A i \in DOMAIN keyops : TimesCalled(keyops[i].ops, "ReceiveBlob") <= 1
    /\ \A b \in store : \E i \in DOMAIN keyops :
          /\ keyops[i].ref = SHA1FromString(b)
          /\ TimesCalled(keyops[i].ops, "ReceiveBlob") = 1

\* A step that serves a request or signs leaves the destination, the record
\* of publications and every field of the handler as they were.
ServingWritesNothing ==
    (sig' # sig) => (store' = store /\ keyops' = keyops /\ hnd' = hnd)

C17_WitnessSign ==
    /\ hnd.pubKeyFetcher \subseteq store
    /\ \E i \in DOMAIN sig.signs : sig.signs[i].out.called /\ ~sig.signs[i].out.err

\* What Handler.Sign did with the builder it was given.
SignedAsDeclared(s) ==
    /\ s.bb.claimDate.fmt = "rfc3339" =>
          /\ s.out.called
          /\ ~s.out.err => s.out.signed.sigTime = s.bb.claimDate.t
    /\ s.bb.claimDate.fmt = "missing" =>
          /\ s.out.called
          /\ ~s.out.err => s.out.signed.sigTime = s.clock
    /\ s.bb.claimDate.fmt = "garbled" => (s.out.err /\ ~s.out.called)
    /\ s.out.called => s.out.signed.json.doc.camliSigner = s.signer
    /\ (s.out.called /\ ~s.out.err) => s.out.signed.sigKey = s.signer

\* C18: Handler.Sign signs at the claim date the builder declares; when the
\* builder declares none it sets no signature time and the primitive signs at
\* the current time; when the claim date cannot be read for another reason it
\* returns the error and the primitive is not invoked; the signer of what is
\* signed is always the handler's own pubKeyBlobRef.
C18_SignAtDeclaredClaimDate ==
    \A i \in DOMAIN sig.signs : SignedAsDeclared(sig.signs[i])

\* A builder naming another signer and declaring a claim date was signed.
C18_Witness ==
    \E i \in DOMAIN sig.signs :
        /\ sig.signs[i].bb.camliSigner # ZeroRef
        /\ sig.signs[i].bb.camliSigner # sig.signs[i].signer
        /\ sig.signs[i].bb.claimDate = RFC3339(3)
        /\ ~sig.signs[i].out.err
        /\ sig.signs[i].out.signed.sigTime = 3

\* A builder declaring no claim date was signed at the time of the clock.
C18_WitnessMissing ==
    \E i \in DOMAIN sig.signs :
        /\ sig.signs[i].bb.claimDate = MissingField
        /\ ~sig.signs[i].out.err
        /\ sig.signs[i].out.signed.sigTime = sig.signs[i].clock

\* A builder whose claim date is no time was refused unsigned.
C18_WitnessGarbled ==
    \E i \in DOMAIN sig.signs :
        /\ sig.signs[i].bb.claimDate = Garbled
        /\ sig.signs[i].keyring
        /\ sig.signs[i].out.err
        /\ ~sig.signs[i].out.called

----------------------------------------------------------------------------
\* Properties of the end of the stream.

ReadErrs(q) == SelectSeq(q.errs, LAMBDA m : m[1].text = "Error reading multipart section")

\* The stream ended, cleanly or not, at its i-th read.
StreamEndsAt(q, i) == q.stream[i].kind \in {"EOF", "error"}

\* The loop at the end of the stream: the read that met it is the last one,
\* the loop is left, a clean end records nothing and a failed read records
\* exactly one error, and what was received before it is kept.
ExitsAtStreamEnd(q) ==
    /\ \A i \in DOMAIN q.stream :
          StreamEndsAt(q, i) =>
              /\ i = Len(q.stream)
              /\ q.pc # "loop"
              /\ Len(HandlerCalls(q, "NextPart")) = i
              /\ Len(ReadErrs(q)) = (IF q.stream[i].kind = "error" THEN 1 ELSE 0)
              /\ Len(IngestErrs(q)) = Cardinality(OwnFailedParts(q))
              /\ q.receivedBlobs = ValidNamed(q.stream, i - 1)
    /\ q.pc = "loop" => \A i \in DOMAIN q.stream : ~StreamEndsAt(q, i)

LoopExitsAtStreamEnd == \A r \in Reqs : ExitsAtStreamEnd(rq[r])

\* C19: the ingestion loop ends with the stream and the handler goes on to the
\* response: a clean end of stream leaves the loop with no error recorded, any
\* other NextPart failure records exactly one error and leaves the loop at
\* that read, and the blobs received up to there are returned in received.
C19_StreamEndStillResponds ==
    \A r \in Reqs :
        LET q == rq[r]
        IN  /\ ExitsAtStreamEnd(q)
            /\ \A i \in DOMAIN q.stream :
                  (StreamEndsAt(q, i) /\ Ended(q)) =>
                      /\ JSONBodies(q) # <<>>
                      /\ JSONBodies(q)[1].body.received
                            = ReceivedList(ValidNamed(q.stream, i - 1))

----------------------------------------------------------------------------
\* Properties of request-context wrapping.

NotAStreamingFetcher(v) == v.err = "BlobReceiver is not a StreamingFetcher"

\* C20: when the storage given to the upload handler is a ContextWrapper and
\* a StreamingFetcher, the receiver the handler works with after
\* wrapReceiveConfiger, and passes to vivify, is a StreamingFetcher too, the
\* mixAndMatch of the new receiver and the old configer included: vivify
\* never fails with "BlobReceiver is not a StreamingFetcher" for it.
C20_WrappingKeepsStreamingFetcher ==
    \A r \in Reqs :
        (Begun(rq[r]) /\ storage.contextWrapper /\ storage.streamingFetcher) =>
            /\ rq[r].blobReceiver.streamingFetcher
            /\ \A k \in DOMAIN rq[r].vlog : ~NotAStreamingFetcher(rq[r].vlog[k])
====
